---------------------------- MODULE Spec2Model ----------------------------
(***************************************************************************)
(* NeuroM: the dendrogram layout engine (neurom/analysis/dendrogram.py)    *)
(* and the morphology checks (neurom/check/morphtree.py).                  *)
(*                                                                         *)
(* Coordinates, radii and lengths are integers here; every division the    *)
(* code performs on them (x / 2., 0.5 * x) is exact on the inputs drawn.   *)
(* Sequences are 1-based: the code's index k is k + 1 here, and a slice    *)
(* a[lo:hi] of the polygon buffer is the pair <<lo, hi>> (a numpy slice is *)
(* a view on the buffer, not a copy).                                      *)
(***************************************************************************)
EXTENDS Integers, Sequences, FiniteSets

VARIABLES
    \* ---- Dendrogram: the input object
    nNodes,        \* number of points of the object, nodes are 1..nNodes
    par,           \* par[i]: parent of node i, 0 for the root of a tree
    fat,           \* the node carrying the large radius (0: none)
    isTree,        \* isinstance(self._obj, Tree)
    \* ---- Dendrogram: the object's fields
    scale,         \* self.scale
    _n,            \* self._n
    _max_dims,     \* self._max_dims
    _trees,        \* self._trees, each group a slice <<lo, hi>> of the buffer
    _dims,         \* self._dims
    _rectangles,   \* self._rectangles
    \* ---- Dendrogram: control state of generate
    pc,            \* "idle" | "gen" | "done" | "error" (IndexError raised)
    stack,         \* activation records of _generate_dendro, top last
    neurite,       \* position of generate's loop over self._obj.neurites
    n_previous,    \* generate's local n_previous
    \* ---- Dendrogram: history of the calls
    gens,          \* calls of generate so far
    views,         \* calls of view so far
    pos,           \* pos[i]: the offsets _generate_dendro was called with on i
    vidx,          \* vidx[i]: buffer place of the vertical polygon of edge par[i]->i
    snap,          \* fields as the first generate left them
    \* ---- is_monotonic
    mTree,         \* sequence of [parent, sec]: sec the radii of the section
    mTol,          \* tol
    mSeen,         \* nodes iter_nodes has yielded so far
    mRes,          \* "none" | "True" | "False": the value returned
    \* ---- is_flat
    fExt,          \* the three principal direction extents
    fTol,          \* tol as a fraction <<num, den>>
    fMethod,       \* method
    fRes,          \* "none" | "True" | "False"
    \* ---- is_back_tracking
    bTree,         \* sequence of sections, each a sequence of rows <<x, y, z, r>>
    bNext,         \* next node of the loop over iter_nodes
    bRes           \* "none" | "True" | "False"

dvars == <<nNodes, par, fat, isTree, scale, _n, _max_dims, _trees, _dims,
           _rectangles, pc, stack, neurite, n_previous, gens, views, pos,
           vidx, snap>>
mvars == <<mTree, mTol, mSeen, mRes>>
fvars == <<fExt, fTol, fMethod, fRes>>
bvars == <<bTree, bNext, bRes>>
vars == <<dvars, mvars, fvars, bvars>>

(***************************************************************************)
(* Bounds of the inputs.                                                   *)
(***************************************************************************)
MaxNodes == 5
MaxNeurites == 2
MaxScale == 2
MaxGens == 2
MaxViews == 2

\* COLS.R: the radius column of a row (x, y, z, r), 1-based
COLS_R == 4

SmallR == 1
LargeR == 20

Abs(x) == IF x < 0 THEN -x ELSE x

\* a returned bool
Bool(b) == IF b THEN "True" ELSE "False"

RECURSIVE SumSeq(_)
SumSeq(s) == IF s = <<>> THEN 0 ELSE Head(s) + SumSeq(Tail(s))

Max2(a, b) == IF a > b THEN a ELSE b

\* sqrt, exact on the perfect squares the inputs produce
ISqrt(n) == CHOOSE k \in 0..n : k * k <= n /\ (k + 1) * (k + 1) > n

(***************************************************************************)
(* The tree of points the dendrogram is drawn from.                        *)
(***************************************************************************)
Nodes == 1..nNodes

\* node.value: the row (x, y, z, r) of the point
value(i) == <<3 * i, 4 * i, 0, IF i = fat THEN LargeR ELSE SmallR>>

\* node.children, in order
children(i) == SelectSeq([k \in 1..nNodes |-> k], LAMBDA k : par[k] = i)

\* self._obj.neurites (for a Tree: the tree itself)
neurites == SelectSeq([k \in 1..nNodes |-> k], LAMBDA k : par[k] = 0)

RECURSIVE n_terminations(_)
n_terminations(i) ==
    IF children(i) = <<>> THEN 1
    ELSE SumSeq([k \in 1..Len(children(i)) |-> n_terminations(children(i)[k])])

RECURSIVE n_segments(_)
n_segments(i) ==
    SumSeq([k \in 1..Len(children(i)) |-> 1 + n_segments(children(i)[k])])

RECURSIVE n_bifurcations(_)
n_bifurcations(i) ==
    (IF Len(children(i)) > 1 THEN 1 ELSE 0)
    + SumSeq([k \in 1..Len(children(i)) |-> n_bifurcations(children(i)[k])])

segment_length(a, b) ==
    ISqrt((a[1] - b[1]) * (a[1] - b[1]) + (a[2] - b[2]) * (a[2] - b[2])
          + (a[3] - b[3]) * (a[3] - b[3]))


(***************************************************************************)
(* dendrogram.py: the helper functions.                                    *)
(***************************************************************************)
_total_rectangles(tree) == n_segments(tree) + n_bifurcations(tree) * 2

\* _n_rectangles(self._obj): a Tree, or a Neuron (the sum over its neurites)
_n_rectangles ==
    IF isTree THEN _total_rectangles(neurites[1])
    ELSE SumSeq([k \in 1..Len(neurites) |-> _total_rectangles(neurites[k])])

\* the buffer np.zeros([n, 4, 2])
Zeros(n) == [k \in 1..n |-> [j \in 1..4 |-> <<0, 0>>]]

\* displace the polygons rectangles[lo:hi] by t, in place
displace(rectangles, group, t) ==
    [i \in 1..Len(rectangles) |->
        IF group[1] < i /\ i <= group[2]
        THEN [j \in 1..4 |-> <<rectangles[i][j][1] + t[1],
                               rectangles[i][j][2] + t[2]>>]
        ELSE rectangles[i]]

\* the two radii read at the wrong ends
_vertical_segment_swapped(old_offs, new_offs, spacing, radii) ==
    << <<new_offs[1] - radii[2], old_offs[2] + spacing[2]>>,
       <<new_offs[1] - radii[1], new_offs[2]>>,
       <<new_offs[1] + radii[1], new_offs[2]>>,
       <<new_offs[1] + radii[2], old_offs[2] + spacing[2]>> >>

_vertical_segment(old_offs, new_offs, spacing, radii) ==
    << <<new_offs[1] - radii[1], old_offs[2] + spacing[2]>>,
       <<new_offs[1] - radii[2], new_offs[2]>>,
       <<new_offs[1] + radii[2], new_offs[2]>>,
       <<new_offs[1] + radii[1], old_offs[2] + spacing[2]>> >>

_horizontal_segment(old_offs, new_offs, spacing, diameter) ==
    << <<old_offs[1], old_offs[2] + spacing[2]>>,
       <<new_offs[1], old_offs[2] + spacing[2]>>,
       <<new_offs[1], old_offs[2] + spacing[2] - diameter>>,
       <<old_offs[1], old_offs[2] + spacing[2] - diameter>> >>

\* returns the start x; max_dims[0] is updated in place
_spacingx(node, max_dims, xoffset, xspace) ==
    LET x_spacing == n_terminations(node) * xspace
    IN  [start_x  |-> xoffset - (x_spacing \div 2),
         max_dims |-> IF x_spacing > max_dims[1]
                      THEN <<x_spacing, max_dims[2]>> ELSE max_dims]

\* the child placed at the far edge of its span instead of its middle
_update_offsets_edge(start_x, spacing, terminations, offsets, length) ==
    <<start_x + spacing[1] * terminations,
      offsets[2] + spacing[2] * 2 + length>>

_update_offsets(start_x, spacing, terminations, offsets, length) ==
    <<start_x + ((spacing[1] * terminations) \div 2),
      offsets[2] + spacing[2] * 2 + length>>

\* generate's local spacing = (40., 0.) and offsets = (0., 0.)
gen_spacing == <<40, 0>>
gen_offsets == <<0, 0>>

(***************************************************************************)
(* Dendrogram: construction.                                               *)
(***************************************************************************)
\* a is j or an ancestor of j (0, above every root, is an ancestor of all)
RECURSIVE OnPath(_, _, _)
OnPath(p, a, j) ==
    IF a = j THEN TRUE ELSE IF j = 0 THEN FALSE ELSE OnPath(p, a, p[j])

\* the forests of up to MaxNodes points and MaxNeurites trees, the points
\* numbered in depth-first order: the parent of i is i - 1 or above it
Forests ==
    UNION {{p \in [1..n -> 0..(n - 1)] :
               /\ \A i \in 1..n : OnPath(p, p[i], i - 1)
               /\ Cardinality({i \in 1..n : p[i] = 0}) <= MaxNeurites}
           : n \in 1..MaxNodes}

NoSnap == [taken |-> FALSE]

\* Dendrogram.__init__(obj), scale set by the caller before generate
DendroInit ==
    /\ par \in Forests
    /\ nNodes = Len(par)
    /\ fat \in 0..nNodes
    /\ isTree \in {b \in BOOLEAN : b => Cardinality({i \in 1..nNodes : par[i] = 0}) = 1}
    /\ scale \in 1..MaxScale
    /\ _n = 0
    /\ _max_dims = <<0, 0>>
    /\ _trees = <<>>
    /\ _dims = <<>>
    /\ _rectangles = Zeros(_n_rectangles)
    /\ pc = "idle"
    /\ stack = <<>>
    /\ neurite = 0
    /\ n_previous = 0
    /\ gens = 0
    /\ views = 0
    /\ pos = [i \in 1..nNodes |-> <<>>]
    /\ vidx = [i \in 1..nNodes |-> 0]
    /\ snap = NoSnap

(***************************************************************************)
(* Dendrogram._generate_dendro, one activation record per call.            *)
(***************************************************************************)
\* lines 202-208: the call's prologue
Enter(node, offsets, max_dims) ==
    LET sp == _spacingx(node, max_dims, offsets[1], gen_spacing[1])
    IN  [frame |-> [node |-> node, k |-> 1, ret |-> FALSE, offsets |-> offsets,
                    start_x |-> sp.start_x,
                    radii |-> <<value(node)[COLS_R] * scale, 0>>,
                    new_offsets |-> <<0, 0>>, terminations |-> 0],
         max_dims |-> sp.max_dims]

Top == stack[Len(stack)]
Pop == SubSeq(stack, 1, Len(stack) - 1)
ReplaceTop(f) == [stack EXCEPT ![Len(stack)] = f]

inputs == <<nNodes, par, fat, isTree, scale>>

\* generate(): lines 159-179, up to the first call of _generate_dendro
Generate ==
    /\ pc \in {"idle", "done"}
    /\ gens < MaxGens
    /\ gens' = gens + 1
    /\ pc' = "gen"
    /\ n_previous' = 0
    /\ neurite' = 1
    /\ LET e == Enter(neurites[1], gen_offsets, _max_dims)
       IN  /\ stack' = <<e.frame>>
           /\ _max_dims' = e.max_dims
           /\ pos' = [pos EXCEPT ![neurites[1]] = gen_offsets]
    /\ UNCHANGED <<inputs, _n, _trees, _dims, _rectangles, views, vidx, snap>>

\* lines 210-238: one pass of the loop over the children, up to and
\* including the recursive call's prologue
Descend ==
    /\ pc = "gen"
    /\ stack # <<>>
    /\ ~Top.ret
    /\ Top.k <= Len(children(Top.node))
    /\ LET f == Top
           child == children(f.node)[f.k]
           ln == segment_length(value(f.node), value(child))
           radii == <<f.radii[1], value(child)[COLS_R] * scale>>
           terminations == n_terminations(child)
           new_offsets == _update_offsets(f.start_x, gen_spacing, terminations,
                                          f.offsets, ln)
           md == IF f.offsets[2] + gen_spacing[2] * 2 + ln > _max_dims[2]
                 THEN <<_max_dims[1], f.offsets[2] + gen_spacing[2] * 2 + ln>>
                 ELSE _max_dims
           e == Enter(child, new_offsets, md)
       IN  IF _n >= Len(_rectangles)
           THEN \* self._rectangles[self._n] = ... raises IndexError
                /\ pc' = "error"
                /\ stack' = <<>>
                /\ UNCHANGED <<_n, _rectangles, _max_dims, pos, vidx>>
           ELSE /\ _rectangles' = [_rectangles EXCEPT ![_n + 1] =
                        _vertical_segment(f.offsets, new_offsets, gen_spacing, radii)]
                /\ _n' = _n + 1
                /\ _max_dims' = e.max_dims
                /\ stack' = Append(ReplaceTop([f EXCEPT !.ret = TRUE,
                                                        !.radii = radii,
                                                        !.new_offsets = new_offsets,
                                                        !.terminations = terminations]),
                                   e.frame)
                /\ pos' = [pos EXCEPT ![child] = new_offsets]
                /\ vidx' = [vidx EXCEPT ![child] = _n + 1]
                /\ pc' = pc
    /\ UNCHANGED <<inputs, _trees, _dims, neurite, n_previous, gens, views, snap>>

\* the end of generate, and of each pass of its loop over the neurites
\* (lines 171, 182-191), when the outermost call returns
Outermost ==
    IF isTree
    THEN /\ _trees' = << <<0, Len(_rectangles)>> >>
         /\ pc' = "done"
         /\ stack' = <<>>
         /\ UNCHANGED <<_dims, _max_dims, n_previous, neurite, pos>>
    ELSE /\ _trees' = Append(_trees, <<n_previous, _n>>)
         /\ _dims' = Append(_dims, _max_dims)
         /\ n_previous' = _n
         /\ IF neurite < Len(neurites)
            THEN LET e == Enter(neurites[neurite + 1], gen_offsets, <<0, 0>>)
                 IN  /\ neurite' = neurite + 1
                     /\ stack' = <<e.frame>>
                     /\ _max_dims' = e.max_dims
                     /\ pos' = [pos EXCEPT ![neurites[neurite + 1]] = gen_offsets]
                     /\ pc' = pc
            ELSE /\ _max_dims' = <<0, 0>>
                 /\ stack' = <<>>
                 /\ pc' = "done"
                 /\ UNCHANGED <<neurite, pos>>

\* the loop over the children is exhausted: the call returns
Return ==
    /\ pc = "gen"
    /\ stack # <<>>
    /\ ~Top.ret
    /\ Top.k > Len(children(Top.node))
    /\ IF Len(stack) > 1
       THEN /\ stack' = Pop
            /\ UNCHANGED <<_trees, _dims, _max_dims, n_previous, neurite, pos, pc>>
       ELSE Outermost
    /\ snap' = IF pc' = "done" /\ gens = 1
               THEN [taken |-> TRUE, rectangles |-> _rectangles,
                     trees |-> _trees', dims |-> _dims']
               ELSE snap
    /\ UNCHANGED <<inputs, _n, _rectangles, gens, views, vidx>>

\* lines 241-250: after the recursive call on child k
AfterChild ==
    /\ pc = "gen"
    /\ stack # <<>>
    /\ Top.ret
    /\ LET f == Top
           g == [f EXCEPT !.ret = FALSE, !.k = f.k + 1,
                          !.start_x = f.start_x + f.terminations * gen_spacing[1]]
       IN  IF f.offsets[1] # f.new_offsets[1]
           THEN IF _n >= Len(_rectangles)
                THEN \* IndexError
                     /\ pc' = "error"
                     /\ stack' = <<>>
                     /\ UNCHANGED <<_n, _rectangles>>
                ELSE /\ _rectangles' = [_rectangles EXCEPT ![_n + 1] =
                             _horizontal_segment(f.offsets, f.new_offsets, gen_spacing, 0)]
                     /\ _n' = _n + 1
                     /\ stack' = ReplaceTop(g)
                     /\ pc' = pc
           ELSE /\ stack' = ReplaceTop(g)
                /\ UNCHANGED <<_n, _rectangles, pc>>
    /\ UNCHANGED <<inputs, _max_dims, _trees, _dims, neurite, n_previous, gens,
                   views, pos, vidx, snap>>

\* view(): lines 264-273, the loop that displaces each group in place
RECURSIVE ViewLoop(_, _, _)
ViewLoop(i, displacement, rectangles) ==
    IF i > Len(_trees) THEN rectangles
    ELSE LET d == IF i > 1
                  THEN displacement + ((_dims[i - 1][1] + _dims[i][1]) \div 2)
                  ELSE displacement
         IN  ViewLoop(i + 1, d, displace(rectangles, _trees[i], <<d, 0>>))

\* (before the first generate self._trees is empty and the loop does nothing;
\* the drawing calls that follow displace in each pass leave the fields alone)
View ==
    /\ pc = "done"
    /\ views < MaxViews
    /\ views' = views + 1
    /\ _rectangles' = ViewLoop(1, 0, _rectangles)
    /\ UNCHANGED <<inputs, _n, _max_dims, _trees, _dims, pc, stack, neurite,
                   n_previous, gens, pos, vidx, snap>>

MonoIdle == mTree = <<>> /\ mTol = 0 /\ mSeen = {} /\ mRes = "none"
FlatIdle == fExt = <<0, 0, 0>> /\ fTol = <<0, 1>> /\ fMethod = "tolerance" /\ fRes = "none"
BackIdle == bTree = <<>> /\ bNext = 1 /\ bRes = "none"

InitDendro == DendroInit /\ MonoIdle /\ FlatIdle /\ BackIdle

NextDendro ==
    \/ Generate /\ UNCHANGED <<mvars, fvars, bvars>>
    \/ Descend /\ UNCHANGED <<mvars, fvars, bvars>>
    \/ AfterChild /\ UNCHANGED <<mvars, fvars, bvars>>
    \/ Return /\ UNCHANGED <<mvars, fvars, bvars>>
    \/ View /\ UNCHANGED <<mvars, fvars, bvars>>

SpecDendro == InitDendro /\ [][NextDendro]_vars

(***************************************************************************)
(* Dendrogram: the claims.                                                 *)
(***************************************************************************)
Visited(i) == pos[i] # <<>>

\* the horizontal footprint of a node: n_terminations(node) * spacing[0]
\* wide, centred on the x-offset the node was laid out with
FootLo(i) == pos[i][1] - ((n_terminations(i) * gen_spacing[1]) \div 2)
FootHi(i) == pos[i][1] + ((n_terminations(i) * gen_spacing[1]) \div 2)

\* C1 (as claimed): the first generate writes exactly
\* n_segments + 2 * n_bifurcations polygons: it never writes at an index
\* >= the buffer length, and ends with _n equal to the buffer length.
C1_BufferExact ==
    gens = 1 =>
        /\ pc # "error"
        /\ pc = "done" => _n = Len(_rectangles)

\* C2: the footprints of a node's children lie inside the node's footprint
\* and two of them share at most a boundary point.
C2_SiblingsDisjoint ==
    \A i \in Nodes : \A a, b \in 1..Len(children(i)) :
        LET ca == children(i)[a]
            cb == children(i)[b]
        IN  (Visited(i) /\ Visited(ca) /\ Visited(cb)) =>
                /\ FootLo(i) <= FootLo(ca)
                /\ FootHi(ca) <= FootHi(i)
                /\ a < b => FootHi(ca) <= FootLo(cb)

C2_Witness ==
    /\ pc = "done"
    /\ \E i \in Nodes : Len(children(i)) >= 3 /\ \E c \in Nodes : par[c] # 0 /\ par[par[c]] = i

\* the vertical polygon the claim describes for the edge par[c] -> c
ExpectedVertical(c) ==
    LET p == par[c]
        rp == value(p)[COLS_R] * scale
        rc == value(c)[COLS_R] * scale
    IN  << <<pos[c][1] - rp, pos[p][2] + gen_spacing[2]>>,
           <<pos[c][1] - rc, pos[c][2]>>,
           <<pos[c][1] + rc, pos[c][2]>>,
           <<pos[c][1] + rp, pos[p][2] + gen_spacing[2]>> >>

\* C3: until a view displaces it, the vertical polygon of every edge has the
\* parent's scaled radius at its top (y = parent y + spacing y), the child's
\* at its bottom (y = child y), around the child's x, and the child's y is
\* the parent's plus 2 * spacing y plus the segment's length.
C3_VerticalPolygon ==
    views = 0 =>
        \A c \in Nodes : vidx[c] # 0 =>
            /\ _rectangles[vidx[c]] = ExpectedVertical(c)
            /\ pos[c][2] = pos[par[c]][2] + 2 * gen_spacing[2]
                           + segment_length(value(par[c]), value(c))

C3_Witness ==
    /\ views = 0
    /\ pc = "done"
    /\ scale > 1
    /\ \E c \in Nodes :
          /\ vidx[c] # 0
          /\ children(par[c])[1] # c
          /\ par[c] = fat

\* C8 (as claimed): once generate has filled the buffer, no later operation
\* changes a vertex of it.
C8_BufferImmutable ==
    [][(pc = "done" /\ pc' = "done") => _rectangles' = _rectangles]_vars

RECURSIVE Shape(_)
Shape(i) == [k \in 1..Len(children(i)) |-> Shape(children(i)[k])]

\* the x coordinates of the vertices of a group
GroupXs(group) ==
    {_rectangles[i][j][1] : i \in (group[1] + 1)..group[2], j \in 1..4}

\* C9 (as claimed): two neurites of the same shape, generated and then
\* viewed once, cover disjoint x-ranges.
C9_NeuritesDisjoint ==
    (/\ ~isTree
     /\ Len(neurites) = 2
     /\ Shape(neurites[1]) = Shape(neurites[2])
     /\ pc = "done" /\ gens = 1 /\ views = 1) =>
        \/ \A x \in GroupXs(_trees[1]) : \A y \in GroupXs(_trees[2]) : x < y
        \/ \A x \in GroupXs(_trees[1]) : \A y \in GroupXs(_trees[2]) : y < x

\* C10 (as claimed): a second generate on the same object completes without
\* error and leaves the buffer, the groups and the extents as the first did.
C10_GenerateTwice ==
    (gens = 2 /\ views = 0 /\ snap.taken) =>
        /\ pc # "error"
        /\ pc = "done" => /\ _rectangles = snap.rectangles
                          /\ _trees = snap.trees
                          /\ _dims = snap.dims

(***************************************************************************)
(* morphtree.py: is_monotonic(neurite, tol).                               *)
(* A node of the tree of sections is [parent, value]: parent 0 is None,    *)
(* value the rows (x, y, z, r) of the section.                             *)
(***************************************************************************)
MaxMNodes == 3
MaxSecLen == 2
MRadii == {1, 3}
MTols == {0, 2}

DendroIdle ==
    /\ nNodes = 0 /\ par = <<>> /\ fat = 0 /\ isTree = TRUE /\ scale = 1
    /\ _n = 0 /\ _max_dims = <<0, 0>> /\ _trees = <<>> /\ _dims = <<>>
    /\ _rectangles = <<>> /\ pc = "idle" /\ stack = <<>> /\ neurite = 0
    /\ n_previous = 0 /\ gens = 0 /\ views = 0 /\ pos = <<>> /\ vidx = <<>>
    /\ snap = NoSnap

MSections ==
    UNION {[1..n -> {<<0, 0, 0, r>> : r \in MRadii}] : n \in 1..MaxSecLen}

MonoInit ==
    /\ \E n \in 1..MaxMNodes :
          \E p \in {q \in [1..n -> 0..(n - 1)] :
                       \A i \in 1..n : q[i] < i /\ ((q[i] = 0) = (i = 1))} :
              \E v \in [1..n -> MSections] :
                  mTree = [i \in 1..n |-> [parent |-> p[i], value |-> v[i]]]
    /\ mTol \in MTols
    /\ mSeen = {}
    /\ mRes = "none"

\* the section boundary compared with the parent's first sample
MonoNodeFails_first(tree, node, tol) ==
    LET sec == tree[node].value
    IN  \/ \E point_id \in 1..(Len(sec) - 1) :
              sec[point_id + 1][COLS_R] > sec[point_id][COLS_R] + tol
        \/ /\ tree[node].parent # 0
           /\ sec[1][COLS_R] > tree[tree[node].parent].value[1][COLS_R] + tol

\* lines 51-58: the body of the loop for one node; TRUE when it returns False
MonoNodeFails(tree, node, tol) ==
    LET sec == tree[node].value
    IN  \/ \E point_id \in 1..(Len(sec) - 1) :
              sec[point_id + 1][COLS_R] > sec[point_id][COLS_R] + tol
        \/ /\ tree[node].parent # 0
           /\ LET pv == tree[tree[node].parent].value
              IN  sec[1][COLS_R] > pv[Len(pv)][COLS_R] + tol

\* neurite.iter_nodes() yields the next node: each node once, in an order
\* left open here
iter_nodes_next(seen) == DOMAIN mTree \ seen

\* one pass of the loop of is_monotonic
MonoVisit ==
    /\ mRes = "none"
    /\ \E node \in iter_nodes_next(mSeen) :
          /\ mSeen' = mSeen \cup {node}
          /\ mRes' = IF MonoNodeFails(mTree, node, mTol) THEN "False" ELSE "none"
    /\ UNCHANGED <<mTree, mTol>>

\* line 60: the loop is exhausted
MonoReturn ==
    /\ mRes = "none"
    /\ iter_nodes_next(mSeen) = {}
    /\ mRes' = "True"
    /\ UNCHANGED <<mTree, mTol, mSeen>>

InitMono == DendroIdle /\ MonoInit /\ FlatIdle /\ BackIdle

NextMono ==
    \/ MonoVisit /\ UNCHANGED <<dvars, fvars, bvars>>
    \/ MonoReturn /\ UNCHANGED <<dvars, fvars, bvars>>

SpecMono == InitMono /\ [][NextMono]_vars

\* the radius of sample k of node i
MRadius(i, k) == mTree[i].value[k][COLS_R]

\* C4: is_monotonic returns True exactly when every consecutive pair of
\* samples of every section satisfies r[k+1] <= r[k] + tol and every node's
\* first sample is <= its parent's last sample + tol; otherwise False.
C4_Monotonic ==
    mRes # "none" =>
        mRes = Bool(/\ \A i \in DOMAIN mTree : \A k \in 1..(Len(mTree[i].value) - 1) :
                      MRadius(i, k + 1) <= MRadius(i, k) + mTol
                /\ \A i \in DOMAIN mTree : mTree[i].parent # 0 =>
                      MRadius(i, 1) <= MRadius(mTree[i].parent,
                                               Len(mTree[mTree[i].parent].value)) + mTol)

\* a tree whose only violation is at a section boundary, away from the
\* parent's first sample, found after another node was visited
C4_Witness ==
    /\ mRes = "False"
    /\ Cardinality(mSeen) > 1
    /\ \A i \in DOMAIN mTree : \A k \in 1..(Len(mTree[i].value) - 1) :
          MRadius(i, k + 1) <= MRadius(i, k) + mTol
    /\ \A i \in DOMAIN mTree : mTree[i].parent # 0 =>
          MRadius(i, 1) <= MRadius(mTree[i].parent, 1) + mTol

(***************************************************************************)
(* morphtree.py: is_flat(neurite, tol, method).                            *)
(* ext is principal_direction_extent(neurite.points[:, :3]); tol is the    *)
(* fraction tol[1] / tol[2].                                               *)
(***************************************************************************)
MaxExt == 3
MaxTolNum == 4
FTolDens == {1, 5}
FMethods == {"tolerance", "ratio", "flatness"}

FlatInit ==
    /\ fExt \in [1..3 -> 0..MaxExt]
    /\ fTol \in {<<n, d>> : n \in 0..MaxTolNum, d \in FTolDens}
    /\ fMethod \in FMethods
    /\ fRes = "none"

\* np.sort of three values: ascending
np_sort(ext) ==
    LET lo == IF ext[1] <= ext[2] THEN ext[1] ELSE ext[2]
        hi == IF ext[1] <= ext[2] THEN ext[2] ELSE ext[1]
    IN  IF ext[3] <= lo THEN <<ext[3], lo, hi>>
        ELSE IF ext[3] <= hi THEN <<lo, ext[3], hi>>
        ELSE <<lo, hi, ext[3]>>

\* a / b < tol in floating point: 0. / 0. is nan, and nan < tol is False
\* (the extents are never negative, so b = 0 makes a = 0)
QuotientBelow(a, b, tol) == b # 0 /\ a * tol[2] < tol[1] * b

\* the ratio taken of the extents as given, unsorted
is_flat_unsorted(ext, tol, method) ==
    IF method = "ratio"
    THEN QuotientBelow(ext[1], ext[2], tol)
    ELSE \E i \in 1..3 : ext[i] * tol[2] < tol[1]

is_flat(ext, tol, method) ==
    IF method = "ratio"
    THEN LET sorted_ext == np_sort(ext)
         IN  QuotientBelow(sorted_ext[1], sorted_ext[2], tol)
    ELSE \E i \in 1..3 : ext[i] * tol[2] < tol[1]

IsFlat ==
    /\ fRes = "none"
    /\ fRes' = Bool(is_flat(fExt, fTol, fMethod))
    /\ UNCHANGED <<fExt, fTol, fMethod>>

InitFlat == DendroIdle /\ MonoIdle /\ FlatInit /\ BackIdle

NextFlat == IsFlat /\ UNCHANGED <<dvars, mvars, bvars>>

SpecFlat == InitFlat /\ [][NextFlat]_vars

\* C7: for method "ratio" is_flat is True exactly when smallest extent /
\* second smallest extent < tol; for every other method, recognised or
\* not, exactly when some extent is < tol; it always returns a boolean.
C7_Flat ==
    fRes # "none" =>
        /\ fRes \in {"True", "False"}
        /\ fMethod = "ratio" =>
              \E i, j, k \in 1..3 :
                  /\ {i, j, k} = 1..3
                  /\ fExt[i] <= fExt[j] /\ fExt[j] <= fExt[k]
                  /\ fRes = Bool(fExt[j] > 0 /\ fExt[i] * fTol[2] < fTol[1] * fExt[j])
        /\ fMethod # "ratio" =>
              fRes = Bool(\E i \in 1..3 : fExt[i] * fTol[2] < fTol[1])

\* ratio mode on extents given out of order
C7_Witness ==
    /\ fRes = "True"
    /\ fMethod = "ratio"
    /\ fExt = <<3, 2, 1>>
    /\ fTol = <<3, 5>>

(***************************************************************************)
(* morphtree.py: is_back_tracking(neurite).                                *)
(* The tree is the sequence of its sections in the order iter_nodes yields *)
(* them.  Distances are compared exactly, as squares and cross-multiplied: *)
(* the floating point comparisons of the code agree with them except       *)
(* within rounding of equality.                                            *)
(***************************************************************************)
MaxPts == 4
BXs == 0..3
BYs == 0..1
BRadii == {0, 1}

Dot(u, v) == u[1] * v[1] + u[2] * v[2] + u[3] * v[3]
Minus(u, v) == <<u[1] - v[1], u[2] - v[2], u[3] - v[3]>>
Plus(u, v) == <<u[1] + v[1], u[2] + v[2], u[3] + v[3]>>

\* zip(segs, segs[1:])
pair(segs) == [k \in 1..(Len(segs) - 1) |-> <<segs[k], segs[k + 1]>>]

\* node[:COLS.R]
coords(node) == <<node[1], node[2], node[3]>>

max_radius(seg) == Max2(seg[1][COLS_R], seg[2][COLS_R])

\* np.allclose(a, b): |a - b| <= atol + rtol * |b| in every coordinate,
\* with atol = 1e-8 and rtol = 1e-5 (both sides times 1e8)
np_allclose(a, b) ==
    \A k \in 1..3 : Abs(a[k] - b[k]) * 100000000 <= 1 + 1000 * Abs(b[k])

is_not_zero_seg(seg) == ~np_allclose(coords(seg[1]), coords(seg[2]))

\* orthogonal segments taken as opposed
is_in_the_same_verse_strict(seg1, seg2) ==
    Dot(Minus(coords(seg2[2]), coords(seg2[1])),
        Minus(coords(seg1[2]), coords(seg1[1]))) > 0

is_in_the_same_verse(seg1, seg2) ==
    LET v1 == Minus(coords(seg2[2]), coords(seg2[1]))
        v2 == Minus(coords(seg1[2]), coords(seg1[1]))
    IN  Dot(v1, v2) >= 0

\* dist is the fraction dist[1] / dist[2] of the squared distance
is_seg2_within_seg1_radius(dist, seg1, seg2) ==
    LET r == max_radius(seg1) + max_radius(seg2)
    IN  dist[1] <= r * r * dist[2]

\* the reach cut at half the length, without the 5% allowance
is_seg1_overlapping_with_seg2_half(seg1, seg2) ==
    LET c == Minus(Plus(coords(seg1[2]), coords(seg1[2])),
                   Plus(coords(seg2[1]), coords(seg2[2])))
        S1S2 == Minus(coords(seg2[2]), coords(seg2[1]))
        ss == Dot(S1S2, S1S2)
        cs == Dot(c, S1S2)
    IN  /\ is_seg2_within_seg1_radius(<<Dot(c, c) * ss - cs * cs, 4 * ss>>, seg1, seg2)
        /\ Abs(cs) < ss

\* With S = S1S2, c = 2 * CP (an integer vector) and
\* mm.vector_projection(CP, S) = (CP . S / S . S) * S:
\*   |CP - prj|^2 = (|c|^2 * S.S - (c.S)^2) / (4 * S.S)
\*   |prj| < 0.55 * |S|  iff  |c.S| / 2 < 0.55 * S.S  iff  10 * |c.S| < 11 * S.S
is_seg1_overlapping_with_seg2(seg1, seg2) ==
    LET s1 == coords(seg2[1])
        s2 == coords(seg2[2])
        P == coords(seg1[2])
        c == Minus(Plus(P, P), Plus(s1, s2))
        S1S2 == Minus(s2, s1)
        ss == Dot(S1S2, S1S2)
        cs == Dot(c, S1S2)
    IN  IF ~is_seg2_within_seg1_radius(<<Dot(c, c) * ss - cs * cs, 4 * ss>>, seg1, seg2)
        THEN FALSE
        ELSE 10 * Abs(cs) < 11 * ss

is_inside_cylinder(seg1, seg2) ==
    ~is_in_the_same_verse(seg1, seg2) /\ is_seg1_overlapping_with_seg2(seg1, seg2)

\* lines 183-194 for one node: TRUE when the loops return True
BackNodeHits(section) ==
    /\ Len(section) > 2
    /\ LET segment_pairs == SelectSeq(pair(section), is_not_zero_seg)
       IN  \E i \in 2..Len(segment_pairs) : \E j \in 1..(i - 1) :
              is_inside_cylinder(segment_pairs[i], segment_pairs[j])

\* a section through the points p, all of radius r
BSection(p, r) == [k \in DOMAIN p |-> <<p[k][1], p[k][2], 0, r>>]

\* the sections a second node of the tree is drawn from: a single segment,
\* and a section that folds back onto its first segment
BOtherSections ==
    { << <<0, 0, 0, 1>>, <<1, 0, 0, 1>> >>,
      << <<0, 0, 0, 1>>, <<2, 0, 0, 1>>, <<3, 0, 0, 1>>, <<1, 0, 0, 1>> >> }

BackInit ==
    /\ \E n \in 1..MaxPts : \E p \in [1..n -> BXs \X BYs] : \E r \in BRadii :
          LET sec == BSection(p, r)
          IN  bTree \in {<<sec>>} \cup {<<sec, o>> : o \in BOtherSections}
                        \cup {<<o, sec>> : o \in BOtherSections}
    /\ bNext = 1
    /\ bRes = "none"

\* one pass of the loop over the nodes
BackVisit ==
    /\ bRes = "none"
    /\ bNext <= Len(bTree)
    /\ IF BackNodeHits(bTree[bNext])
       THEN bRes' = "True" /\ bNext' = bNext
       ELSE bRes' = bRes /\ bNext' = bNext + 1
    /\ UNCHANGED bTree

\* line 195: every node was looked at
BackReturn ==
    /\ bRes = "none"
    /\ bNext > Len(bTree)
    /\ bRes' = "False"
    /\ UNCHANGED <<bTree, bNext>>

InitBack == DendroIdle /\ MonoIdle /\ FlatIdle /\ BackInit

NextBack ==
    \/ BackVisit /\ UNCHANGED <<dvars, mvars, fvars>>
    \/ BackReturn /\ UNCHANGED <<dvars, mvars, fvars>>

SpecBack == InitBack /\ [][NextBack]_vars

\* ---- the terms of the claims, on the points of a section
\* the direction vector of segment k of a section
SegVec(sec, k) == Minus(coords(sec[k + 1]), coords(sec[k]))
SegRadius(sec, k) == Max2(sec[k][COLS_R], sec[k + 1][COLS_R])
\* twice the vector from the midpoint of segment j to the end of segment i
FromMid2(sec, i, j) ==
    Minus(Plus(coords(sec[i + 1]), coords(sec[i + 1])),
          Plus(coords(sec[j]), coords(sec[j + 1])))
\* the end of segment i is within the radius sum of segment j's axis
WithinRadiusSum(sec, i, j) ==
    LET c == FromMid2(sec, i, j)
        s == SegVec(sec, j)
        r == SegRadius(sec, i) + SegRadius(sec, j)
    IN  Dot(c, c) * Dot(s, s) - Dot(c, s) * Dot(c, s) <= 4 * r * r * Dot(s, s)
\* the projection of the end of segment i on segment j is nearer than
\* 0.55 * |segment j| to segment j's midpoint; farther than that
WithinReach(sec, i, j) ==
    20 * Abs(Dot(FromMid2(sec, i, j), SegVec(sec, j)))
        < 22 * Dot(SegVec(sec, j), SegVec(sec, j))
BeyondReach(sec, i, j) ==
    20 * Abs(Dot(FromMid2(sec, i, j), SegVec(sec, j)))
        > 22 * Dot(SegVec(sec, j), SegVec(sec, j))
NonZero(sec, k) == coords(sec[k]) # coords(sec[k + 1])
\* segment i folds back onto the earlier segment j
FoldsBack(sec, i, j) ==
    /\ NonZero(sec, i) /\ NonZero(sec, j)
    /\ Dot(SegVec(sec, i), SegVec(sec, j)) < 0
    /\ WithinRadiusSum(sec, i, j)
    /\ WithinReach(sec, i, j)

ReversalCase(sec) ==
    /\ Len(sec) = 4
    /\ \A k \in 1..3 : NonZero(sec, k)
    /\ Dot(SegVec(sec, 3), SegVec(sec, 1)) < 0
    /\ WithinRadiusSum(sec, 3, 1)

\* C6 (as claimed): in the reversal case is_back_tracking returns True when
\* the third segment ends within 0.55 * the first segment's length of the
\* first's midpoint, and False when it ends beyond that.
C6_Original ==
    bRes # "none" =>
        \A n \in DOMAIN bTree : ReversalCase(bTree[n]) =>
            /\ WithinReach(bTree[n], 3, 1) => bRes = "True"
            /\ BeyondReach(bTree[n], 3, 1) => bRes = "False"

\* some pair of segments other than (third, first) of section n folds back
OtherFold(n) ==
    \E m \in DOMAIN bTree : \E i \in 2..(Len(bTree[m]) - 1) : \E j \in 1..(i - 1) :
        /\ ~(m = n /\ i = 3 /\ j = 1)
        /\ FoldsBack(bTree[m], i, j)

\* C6 (amended): in the reversal case is_back_tracking returns True when the
\* third segment ends within 0.55 * the first segment's length of the
\* first's midpoint; when it ends beyond that, it returns False provided no
\* other pair of segments (third on second, second on first, or a pair of
\* another section) folds back, and True otherwise.
C6_Reversal ==
    bRes # "none" =>
        \A n \in DOMAIN bTree : ReversalCase(bTree[n]) =>
            /\ WithinReach(bTree[n], 3, 1) => bRes = "True"
            /\ BeyondReach(bTree[n], 3, 1) => bRes = Bool(OtherFold(n))

C6_Witness ==
    /\ bRes = "False"
    /\ \E n \in DOMAIN bTree :
          ReversalCase(bTree[n]) /\ BeyondReach(bTree[n], 3, 1)

=============================================================================
